---- MODULE Spec2Model ----
(***************************************************************************)
(* Order placing service: OrderManager / ExchangeClient of src/main.py.    *)
(*                                                                         *)
(* One OrderManager is constructed, its accounts are loaded, execute() is  *)
(* run (validate_orders, validate_api_credentials, place_orders) and the   *)
(* sessions are closed.  execute() may be invoked again on the same        *)
(* manager before the sessions are closed: successful_orders is kept       *)
(* between the runs, which is how a partially completed run is resumed.    *)
(*                                                                         *)
(* Prices and quantities are decimal numbers with eight fractional digits, *)
(* held as integers (the number of 10^-8 units); a value stands for the    *)
(* IEEE double nearest to it, as Python holds it.                          *)
(*                                                                         *)
(* Time is counted in ticks of 1/rate_limit.num seconds, so that both      *)
(* 1/rate_limit and BACKOFF_FACTOR ** attempt are whole numbers of ticks.  *)
(***************************************************************************)
EXTENDS Integers, Sequences, FiniteSets, TLC

\* ------------------------------------------------------------------ bounds

MaxRetryAttempts == 3
MaxBackoffFactor == 2
MaxOrders == 2
MaxRuns == 2

\* ------------------------------------------------------------------ inputs

\* RATE_LIMIT values, requests per second, as num/den: 1/2 and 2.
RateLimits == {[num |-> 1, den |-> 2], [num |-> 2, den |-> 1]}

RequiredColumns == {"Pair", "Direction", "Price", "Quantity", "Account"}

\* The column sets of the orders table the runs are tried on.
ColumnSets == {RequiredColumns \cup {"Value"}, RequiredColumns \ {"Price"}}

\* The precision table: Account, Price Precision, Quantity Precision.
PrecisionTables ==
    {<<[Account |-> 1, PricePrecision |-> 4, QuantityPrecision |-> 1],
       [Account |-> 2, PricePrecision |-> 2, QuantityPrecision |-> 3]>>}

\* Rows of the orders table (Price and Quantity in units of 10^-8):
\* 2.00012345 x 3.7224567 and 2.00198765 x 3.0671234, and rows that fail.
OrderRows ==
    {[Direction |-> "BUY",  Price |-> 200012345,  Quantity |-> 372245670, Account |-> 1],
     [Direction |-> "SELL", Price |-> 200198765,  Quantity |-> 306712340, Account |-> 2],
     [Direction |-> "HOLD", Price |-> 200012345,  Quantity |-> 372245670, Account |-> 1],
     [Direction |-> "BUY",  Price |-> -100000000, Quantity |-> 0,         Account |-> 3],
     [Direction |-> "SELL", Price |-> 0,          Quantity |-> 0,         Account |-> 1],
     [Direction |-> "BUY",  Price |-> 200012345,  Quantity |-> 372245670, Account |-> 3]}

OrderTables == UNION {[1..n -> OrderRows] : n \in 1..MaxOrders}

\* Rows validate_orders is tried on: every combination of a valid and an
\* invalid Direction, the prices -1, 2.00012345 and 2.125, the quantities 0,
\* 3.7224567 and 0.04, and the accounts 1, 2 (in the precision table) and 3.
ValidationRows ==
    [Direction : {"BUY", "HOLD"},
     Price : {-100000000, 200012345, 212500000},
     Quantity : {0, 372245670, 4000000},
     Account : {1, 2, 3}]

ValidationTables == UNION {[1..n -> ValidationRows] : n \in 1..MaxOrders}

\* What one place_order request can end in.  "ok": HTTP 200 with a JSON body.
\* "insufficient", "threshold", "unknown": a non-200 answer with code -2001,
\* -2002 or another code.  "neterr": the request never reached the exchange.
\* "lost": the exchange executed the order, but the answer did not arrive or
\* its body did not parse, so session.post / response.json raised.
Responses == {"ok", "insufficient", "threshold", "unknown", "neterr", "lost"}

NoError == [kind |-> "none", row |-> 0]

VARIABLES
    rate_limit,         \* OrderManager.rate_limit
    dry_run,            \* OrderManager.dry_run
    BACKOFF_FACTOR,     \* module constant, read from the environment
    RETRY_ATTEMPTS,     \* module constant, read from the environment
    columns,            \* OrderManager.orders.columns
    orders,             \* OrderManager.orders, the rows in row order
    precision,          \* OrderManager.precision
    environ,            \* the positions i with API_KEY_i, API_SECRET_i, API_ACCOUNT_i set
    clients,            \* OrderManager.clients: account -> number of close() calls
    successful_orders,  \* OrderManager.successful_orders
    pc,                 \* where the program is
    cred_row,           \* validate_api_credentials: the precision row being checked
    index,              \* place_orders: the row being processed
    attempt,            \* place_order_with_retry: the loop variable
    wait_time,          \* place_order_with_retry: the computed backoff, in seconds
    outcome,            \* how the current execute() ended, "" while it runs
    error,              \* what validate_orders raised in this run, NoError if nothing
    raised,             \* the exception place_order_with_retry propagated, "" if none
    runs,               \* the number of execute() calls started
    loaded,             \* orders as loaded, before any validate_orders
    accepted,           \* per row: the orders the exchange executed in this run
    ok_seen,            \* per row: the successful place_order responses observed
    attempts,           \* per row: the place_order calls issued in this run
    backoffs,           \* per row: the backoff sleeps of this run, in seconds
    visited,            \* the rows that reached the try block in this run, in order
    skipped,            \* the rows skipped in this run
    limited,            \* the rows followed by the rate limiter's sleep in this run
    acct_calls,         \* the get_account calls of this run: <<account, succeeded>>
    slept,              \* ticks slept since the last place_order call of this run
    last_err,           \* the failure of the last place_order call of this run
    exhausted,          \* the rows whose retries were exhausted in this run
    in_flight,          \* the rows of the place_order requests not yet answered
    validations,        \* what each validate_orders call so far left and raised
    started_with        \* successful_orders as it was when this run started

config == <<rate_limit, dry_run, BACKOFF_FACTOR, RETRY_ATTEMPTS, columns, precision,
            environ, loaded>>
control == <<pc, cred_row, index, attempt, wait_time, outcome, error, raised, runs>>
history == <<accepted, ok_seen, attempts, backoffs, visited, skipped, limited,
             acct_calls, slept, last_err, exhausted>>
observed == <<in_flight, validations, started_with>>
vars == <<config, control, history, observed, orders, clients, successful_orders>>

Rows == 1..Len(orders)

\* ------------------------------------------------------- pure functions

RECURSIVE Pow(_, _)
\* b ** k for k >= 0.
Pow(b, k) == IF k = 0 THEN 1 ELSE b * Pow(b, k - 1)

\* The number of units in 1: values carry eight decimal digits.
Scale == Pow(10, 8)

RECURSIVE DoubleMod(_, _, _)
\* (y * 2^e) mod m.
DoubleMod(y, e, m) ==
    IF e = 0 THEN y % m
    ELSE IF e >= 3 THEN DoubleMod((8 * (y % m)) % m, e - 3, m)
    ELSE DoubleMod((2 * (y % m)) % m, e - 1, m)

RECURSIVE Log2Up(_, _)
\* For 0 < x < Scale and y = x * 2^k: the least n >= k with x * 2^n >= Scale.
Log2Up(y, k) == IF y >= Scale THEN k ELSE Log2Up(2 * y, k + 1)

RECURSIVE Log2Down(_, _)
\* For x >= Scale: the greatest k with Scale * 2^k <= x.
Log2Down(x, k) == IF x \div Pow(2, k + 1) < Scale THEN k ELSE Log2Down(x, k + 1)

\* The binary exponent e with 2^52 <= (x / Scale) * 2^e < 2^53, for x > 0.
MantissaShift(x) == IF x >= Scale THEN 52 - Log2Down(x, 0) ELSE 52 + Log2Up(x, 0)

\* The sign of double(x / Scale) - x / Scale: how the IEEE double nearest to
\* the decimal x / Scale (round-half-even on a 53 bit mantissa) lies to it.
DoubleError(x) ==
    IF x = 0 THEN 0
    ELSE LET m == DoubleMod(x, MantissaShift(x), 2 * Scale)
             r == m % Scale
         IN  IF r = 0 THEN 0
             ELSE IF 2 * r < Scale THEN -1
             ELSE IF 2 * r > Scale THEN 1
             ELSE IF m < Scale THEN -1 ELSE 1

\* float("{:.Pf}".format(x)) for x >= 0: the exact value of the double is
\* rounded to P decimals, half-even when it lies exactly between two of them.
FormatFloat(x, P) ==
    IF Pow(10, P) >= Scale THEN x
    ELSE LET u == Scale \div Pow(10, P)
             q == x \div u
             r == x % u
             up == IF 2 * r # u THEN 2 * r > u
                   ELSE IF DoubleError(x) # 0 THEN DoubleError(x) > 0
                   ELSE q % 2 = 1
         IN  IF up THEN (q + 1) * u ELSE q * u

\* self.precision['Account'].values
PrecisionAccounts(prec) == {prec[i].Account : i \in 1..Len(prec)}

\* Faulty variant: iloc[0] of the whole table, the filter by account lost.
PrecisionOfFirstRow(prec, account) == prec[1]

\* self.precision[self.precision['Account'] == account].iloc[0]
PrecisionOf(prec, account) ==
    prec[CHOOSE i \in 1..Len(prec) :
            /\ prec[i].Account = account
            /\ \A j \in 1..(i - 1) : prec[j].Account # account]

\* Faulty variant: the account is looked up before the values are checked.
RowViolationAccountFirst(o, prec) ==
    IF o.Account \notin PrecisionAccounts(prec) THEN "UnknownAccount"
    ELSE IF o.Direction \notin {"BUY", "SELL"} THEN "InvalidDirection"
    ELSE IF o.Price < 0 THEN "NegativePrice"
    ELSE IF o.Quantity <= 0 THEN "NonPositiveQuantity"
    ELSE "none"

\* The checks of one row, in the order of the code; "none" if the row passes.
RowViolation(o, prec) ==
    IF o.Direction \notin {"BUY", "SELL"} THEN "InvalidDirection"
    ELSE IF o.Price < 0 THEN "NegativePrice"
    ELSE IF o.Quantity <= 0 THEN "NonPositiveQuantity"
    ELSE IF o.Account \notin PrecisionAccounts(prec) THEN "UnknownAccount"
    ELSE "none"

\* The row written back by self.orders.at[index, ...] = float(format(...)).
NormalizedRow(o, prec) ==
    LET p == PrecisionOf(prec, o.Account)
    IN  [o EXCEPT !.Price = FormatFloat(o.Price, p.PricePrecision),
                  !.Quantity = FormatFloat(o.Quantity, p.QuantityPrecision)]

\* Faulty variant: all rows are checked before any row is rewritten.
ValidateRowsAtomic(ords, prec, k) ==
    LET bad == {i \in k..Len(ords) : RowViolation(ords[i], prec) # "none"}
        first == CHOOSE i \in bad : \A j \in bad : i <= j
    IN  IF bad = {}
        THEN [orders |-> [i \in 1..Len(ords) |->
                             IF i < k THEN ords[i] ELSE NormalizedRow(ords[i], prec)],
              error |-> NoError]
        ELSE [orders |-> ords,
              error |-> [kind |-> RowViolation(ords[first], prec), row |-> first]]

RECURSIVE ValidateRows(_, _, _)
\* The loop of validate_orders from row k on: the table it leaves and what it raised.
ValidateRows(ords, prec, k) ==
    IF k > Len(ords) THEN [orders |-> ords, error |-> NoError]
    ELSE IF RowViolation(ords[k], prec) # "none"
         THEN [orders |-> ords, error |-> [kind |-> RowViolation(ords[k], prec), row |-> k]]
         ELSE ValidateRows([ords EXCEPT ![k] = NormalizedRow(ords[k], prec)], prec, k + 1)

\* OrderManager.validate_orders
validate_orders(cols, ords, prec) ==
    IF ~(RequiredColumns \subseteq cols)
    THEN [orders |-> ords, error |-> [kind |-> "MissingColumns", row |-> 0]]
    ELSE ValidateRows(ords, prec, 1)

\* wait_time = BACKOFF_FACTOR ** attempt
WaitTime(factor, att) == Pow(factor, att)

\* Faulty variant: the limiter sleeps one second, whatever the rate limit.
RateLimitIntervalOneSecond(rate) == rate.num

\* 1 / self.rate_limit, in ticks.
RateLimitInterval(rate) == rate.den

\* A number of seconds, in ticks.
SecondsToTicks(rate, seconds) == seconds * rate.num

\* Faulty variant: the check of successful_orders is lost.
AlreadySuccessfulIgnored(i, successful) == FALSE

\* if index in self.successful_orders: continue
AlreadySuccessful(i, successful) == i \in successful

\* Faulty variant: the set is assigned, not added to.
AddSuccessfulReplaces(successful, i) == {i}

\* self.successful_orders.add(index)
AddSuccessful(successful, i) == successful \cup {i}

\* Faulty variant: the last attempt is taken for one more to come.
RetriesLeftOffByOne(att, retry_attempts) == att < retry_attempts

\* if attempt < retry_attempts - 1: sleep and go on, else: raise e
RetriesLeft(att, retry_attempts) == att < retry_attempts - 1

\* Faulty variant: the except clause of execute raises the exception again.
ExecuteReraises == "finally"

\* execute: except Exception prints the error, and execute returns.
ExecuteCatches == "executed"

\* Faulty variant: the validation error is not propagated.
AfterValidateOrdersIgnored(err) == "validate_api_credentials"

\* execute: what follows validate_orders.
AfterValidateOrders(err) ==
    IF err.kind = "none" THEN "validate_api_credentials" ELSE ExecuteCatches

\* Faulty variant: a failed get_account is only logged.
AfterGetAccountIgnored(ok, r, prec) ==
    IF r = Len(prec) THEN "place_orders" ELSE "validate_api_credentials"

\* validate_api_credentials: what follows a get_account call of the row r.
AfterGetAccount(ok, r, prec) ==
    IF ~ok THEN ExecuteCatches
    ELSE IF r = Len(prec) THEN "place_orders" ELSE "validate_api_credentials"

\* Faulty variant: the dry-run flag is not looked at.
SubmitsOrderAlways(dry) == TRUE

\* place_orders: the branch taken for a row that is not skipped.
SubmitsOrder(dry) == ~dry

\* Faulty variant: the failure is logged and the loop goes on with the next row.
AfterRetryExhaustedContinue(i) == "rate_limit_sleep"

\* place_orders: what follows a raise of place_order_with_retry (except: break).
AfterRetryExhausted(i) == "executed"

\* The exchange executes the order when it answers 200, also when the answer is lost.
ExchangeExecutes(r) == r \in {"ok", "lost"}

\* Faulty variant: the loop over the clients stops after the first one.
CloseFirstOnly(cl) ==
    [a \in DOMAIN cl |->
        IF \A b \in DOMAIN cl : a <= b THEN cl[a] + 1 ELSE cl[a]]

\* close_sessions: for client in self.clients.values(): await client.close()
CloseAll(cl) == [a \in DOMAIN cl |-> cl[a] + 1]

NoRows(ords, v) == [i \in 1..Len(ords) |-> v]

Range(f) == {f[i] : i \in DOMAIN f}

\* ---------------------------------------------------------------- states

\* OrderManager.__init__ and load_orders: the manager before load_accounts.
Init ==
    /\ rate_limit \in RateLimits
    /\ dry_run \in BOOLEAN
    /\ BACKOFF_FACTOR \in 1..MaxBackoffFactor
    /\ RETRY_ATTEMPTS \in 1..MaxRetryAttempts
    /\ columns \in ColumnSets
    /\ orders \in OrderTables
    /\ loaded = orders
    /\ precision \in PrecisionTables
    /\ environ \in SUBSET (1..Len(precision))
    /\ clients = <<>>
    /\ successful_orders = {}
    /\ pc = "load_accounts"
    /\ cred_row = 0
    /\ index = 0
    /\ attempt = 0
    /\ wait_time = 0
    /\ outcome = ""
    /\ error = NoError
    /\ raised = ""
    /\ runs = 0
    /\ accepted = NoRows(orders, 0)
    /\ ok_seen = NoRows(orders, 0)
    /\ attempts = NoRows(orders, 0)
    /\ backoffs = NoRows(orders, <<>>)
    /\ visited = <<>>
    /\ skipped = {}
    /\ limited = {}
    /\ acct_calls = <<>>
    /\ slept = 0
    /\ last_err = ""
    /\ exhausted = {}
    /\ in_flight = <<>>
    /\ validations = <<>>
    /\ started_with = {}

\* OrderManager.load_accounts, and order_listing_start going on to execute()
\* or, when load_accounts raises, to the finally block.
LoadAccounts ==
    /\ pc = "load_accounts"
    /\ LET valid_accounts == {precision[i].Account : i \in environ}
       IN  /\ clients' = [a \in valid_accounts |-> 0]
           /\ IF valid_accounts = {}
              THEN /\ pc' = "finally"
                   /\ outcome' = "NoValidAccounts"
                   /\ runs' = runs
              ELSE /\ pc' = "validate_orders"
                   /\ outcome' = ""
                   /\ runs' = runs + 1
    /\ UNCHANGED <<config, in_flight, validations, started_with, history, orders, successful_orders,
                   cred_row, index, attempt, wait_time, error, raised>>

\* execute: self.validate_orders(), and the except clause when it raises.
ValidateOrders ==
    /\ pc = "validate_orders"
    /\ LET res == validate_orders(columns, orders, precision)
       IN  /\ orders' = res.orders
           /\ error' = res.error
           /\ validations' = Append(validations, res)
           /\ pc' = AfterValidateOrders(res.error)
           /\ outcome' = IF AfterValidateOrders(res.error) = "validate_api_credentials"
                         THEN "" ELSE "validation"
    /\ cred_row' = 1
    /\ UNCHANGED <<config, in_flight, started_with, history, clients, successful_orders,
                   index, attempt, wait_time, raised, runs>>

\* validate_api_credentials: one iteration of the loop over the precision
\* rows, get_account answering or failing.
GetAccount(ok) ==
    /\ pc = "validate_api_credentials"
    /\ precision[cred_row].Account \in DOMAIN clients
    /\ acct_calls' = Append(acct_calls, <<precision[cred_row].Account, ok>>)
    /\ pc' = AfterGetAccount(ok, cred_row, precision)
    /\ outcome' = IF AfterGetAccount(ok, cred_row, precision)
                         \in {"validate_api_credentials", "place_orders"}
                  THEN "" ELSE "credential"
    /\ cred_row' = IF ok THEN cred_row + 1 ELSE cred_row
    /\ index' = 1
    /\ UNCHANGED <<config, in_flight, validations, started_with, orders, clients, successful_orders,
                   attempt, wait_time, error, raised, runs,
                   accepted, ok_seen, attempts, backoffs, visited, skipped,
                   limited, slept, last_err, exhausted>>

\* validate_api_credentials: self.clients[row['Account']] of a precision row
\* whose account has no client raises KeyError, which execute catches.
NoClientForAccount ==
    /\ pc = "validate_api_credentials"
    /\ precision[cred_row].Account \notin DOMAIN clients
    /\ pc' = ExecuteCatches
    /\ outcome' = "KeyError"
    /\ UNCHANGED <<config, in_flight, validations, started_with, history, orders, clients, successful_orders,
                   cred_row, index, attempt, wait_time, error, raised, runs>>

\* place_orders: the loop has passed the last row, execute returns.
PlaceOrdersDone ==
    /\ pc = "place_orders"
    /\ index > Len(orders)
    /\ pc' = "executed"
    /\ outcome' = "completed"
    /\ UNCHANGED <<config, in_flight, validations, started_with, history, orders, clients, successful_orders,
                   cred_row, index, attempt, wait_time, error, raised, runs>>

\* place_orders: if index in self.successful_orders: continue
SkipOrder ==
    /\ pc = "place_orders"
    /\ index \in Rows
    /\ AlreadySuccessful(index, successful_orders)
    /\ skipped' = skipped \cup {index}
    /\ index' = index + 1
    /\ UNCHANGED <<config, in_flight, validations, started_with, orders, clients, successful_orders,
                   pc, cred_row, attempt, wait_time, outcome, error, raised, runs,
                   accepted, ok_seen, attempts, backoffs, visited, limited,
                   acct_calls, slept, last_err, exhausted>>

\* place_orders: the dry-run branch, which only logs the order.
DryRunOrder ==
    /\ pc = "place_orders"
    /\ index \in Rows
    /\ ~AlreadySuccessful(index, successful_orders)
    /\ ~SubmitsOrder(dry_run)
    /\ visited' = Append(visited, index)
    /\ pc' = "rate_limit_sleep"
    /\ UNCHANGED <<config, in_flight, validations, started_with, orders, clients, successful_orders,
                   cred_row, index, attempt, wait_time, outcome, error, raised, runs,
                   accepted, ok_seen, attempts, backoffs, skipped, limited,
                   acct_calls, slept, last_err, exhausted>>

\* place_orders calling place_order_with_retry, up to the head of its loop.
\* self.clients[order['Account']] raises KeyError for an account without a
\* client; place_orders catches it and breaks.
EnterRetry ==
    /\ pc = "place_orders"
    /\ index \in Rows
    /\ ~AlreadySuccessful(index, successful_orders)
    /\ SubmitsOrder(dry_run)
    /\ visited' = Append(visited, index)
    /\ attempt' = 0
    /\ IF orders[index].Account \in DOMAIN clients
       THEN /\ pc' = "attempting"
            /\ UNCHANGED <<outcome, raised>>
       ELSE /\ pc' = "executed"
            /\ outcome' = "aborted"
            /\ raised' = "KeyError"
    /\ UNCHANGED <<config, in_flight, validations, started_with, orders, clients, successful_orders,
                   cred_row, index, wait_time, error, runs,
                   accepted, ok_seen, attempts, backoffs, skipped, limited,
                   acct_calls, slept, last_err, exhausted>>

\* Faulty variant: the request is issued as a task that is never awaited, and
\* place_orders goes on to the next row while it is unanswered.
PlaceOrderCallNotAwaited ==
    /\ pc = "attempting"
    /\ attempts' = [attempts EXCEPT ![index] = @ + 1]
    /\ slept' = 0
    /\ last_err' = ""
    /\ in_flight' = Append(in_flight, index)
    /\ pc' = "rate_limit_sleep"
    /\ UNCHANGED <<config, validations, started_with, orders, clients, successful_orders,
                   cred_row, index, attempt, wait_time, outcome, error, raised, runs,
                   accepted, ok_seen, backoffs, visited, skipped, limited, acct_calls,
                   exhausted>>

\* place_order_with_retry: client.place_order(order) issues the POST.
PlaceOrderCall ==
    /\ pc = "attempting"
    /\ attempts' = [attempts EXCEPT ![index] = @ + 1]
    /\ slept' = 0
    /\ last_err' = ""
    /\ in_flight' = Append(in_flight, index)
    /\ pc' = "in_flight"
    /\ UNCHANGED <<config, validations, started_with, orders, clients, successful_orders,
                   cred_row, index, attempt, wait_time, outcome, error, raised, runs,
                   accepted, ok_seen, backoffs, visited, skipped, limited, acct_calls,
                   exhausted>>

\* place_order returns the body of a 200 answer: the index is recorded, the
\* loop is left and place_orders goes on to the rate limiter's sleep.
PlaceOrderSucceeds ==
    /\ pc = "in_flight"
    /\ accepted' = [accepted EXCEPT ![index] = @ + 1]
    /\ ok_seen' = [ok_seen EXCEPT ![index] = @ + 1]
    /\ successful_orders' = AddSuccessful(successful_orders, index)
    /\ in_flight' = Tail(in_flight)
    /\ pc' = "rate_limit_sleep"
    /\ UNCHANGED <<config, validations, started_with, orders, clients,
                   cred_row, index, attempt, wait_time, outcome, error, raised, runs,
                   attempts, backoffs, visited, skipped, limited, acct_calls,
                   slept, last_err, exhausted>>

\* place_order raises: the except clause computes the backoff and either goes
\* on to sleep or re-raises, which place_orders catches to break.
PlaceOrderFails(r) ==
    /\ pc = "in_flight"
    /\ r # "ok"
    /\ accepted' = IF ExchangeExecutes(r)
                   THEN [accepted EXCEPT ![index] = @ + 1] ELSE accepted
    /\ last_err' = r
    /\ in_flight' = Tail(in_flight)
    /\ wait_time' = WaitTime(BACKOFF_FACTOR, attempt)
    /\ IF RetriesLeft(attempt, RETRY_ATTEMPTS)
       THEN /\ pc' = "backoff"
            /\ UNCHANGED <<outcome, raised>>
       ELSE /\ pc' = AfterRetryExhausted(index)
            /\ outcome' = "aborted"
            /\ raised' = r
    /\ exhausted' = IF RetriesLeft(attempt, RETRY_ATTEMPTS)
                    THEN exhausted ELSE exhausted \cup {index}
    /\ UNCHANGED <<config, validations, started_with, orders, clients, successful_orders,
                   cred_row, index, attempt, error, runs,
                   ok_seen, attempts, backoffs, visited, skipped, limited,
                   acct_calls, slept>>

\* place_order_with_retry: await asyncio.sleep(wait_time), then the next attempt.
BackoffSleep ==
    /\ pc = "backoff"
    /\ backoffs' = [backoffs EXCEPT ![index] = Append(@, wait_time)]
    /\ slept' = slept + SecondsToTicks(rate_limit, wait_time)
    /\ attempt' = attempt + 1
    /\ pc' = "attempting"
    /\ UNCHANGED <<config, in_flight, validations, started_with, orders, clients, successful_orders,
                   cred_row, index, wait_time, outcome, error, raised, runs,
                   accepted, ok_seen, attempts, visited, skipped, limited,
                   acct_calls, last_err, exhausted>>

\* place_orders: await asyncio.sleep(1 / self.rate_limit), then the next row.
RateLimitSleep ==
    /\ pc = "rate_limit_sleep"
    /\ limited' = limited \cup {index}
    /\ slept' = slept + RateLimitInterval(rate_limit)
    /\ index' = index + 1
    /\ pc' = "place_orders"
    /\ UNCHANGED <<config, in_flight, validations, started_with, orders, clients, successful_orders,
                   cred_row, attempt, wait_time, outcome, error, raised, runs,
                   accepted, ok_seen, attempts, backoffs, visited, skipped,
                   acct_calls, last_err, exhausted>>

\* execute() is called again on the same manager: a new run, which keeps
\* orders, clients and successful_orders.
ExecuteAgain ==
    /\ pc = "executed"
    /\ runs < MaxRuns
    /\ runs' = runs + 1
    /\ pc' = "validate_orders"
    /\ outcome' = ""
    /\ error' = NoError
    /\ raised' = ""
    /\ cred_row' = 0
    /\ index' = 0
    /\ attempt' = 0
    /\ wait_time' = 0
    /\ accepted' = NoRows(orders, 0)
    /\ attempts' = NoRows(orders, 0)
    /\ backoffs' = NoRows(orders, <<>>)
    /\ visited' = <<>>
    /\ skipped' = {}
    /\ limited' = {}
    /\ acct_calls' = <<>>
    /\ slept' = 0
    /\ last_err' = ""
    /\ exhausted' = {}
    /\ started_with' = successful_orders
    /\ UNCHANGED <<config, in_flight, validations, orders, clients, successful_orders, ok_seen>>

\* order_listing_start: finally: await manager.close_sessions()
CloseSessions ==
    /\ pc \in {"executed", "finally"}
    /\ clients' = CloseAll(clients)
    /\ pc' = "closed"
    /\ UNCHANGED <<config, in_flight, validations, started_with, history, orders, successful_orders,
                   cred_row, index, attempt, wait_time, outcome, error, raised, runs>>

Next ==
    \/ LoadAccounts
    \/ ValidateOrders
    \/ \E ok \in BOOLEAN : GetAccount(ok)
    \/ NoClientForAccount
    \/ PlaceOrdersDone
    \/ SkipOrder
    \/ DryRunOrder
    \/ EnterRetry
    \/ PlaceOrderCall
    \/ PlaceOrderSucceeds
    \/ \E r \in Responses : PlaceOrderFails(r)
    \/ BackoffSleep
    \/ RateLimitSleep
    \/ ExecuteAgain
    \/ CloseSessions

Spec == Init /\ [][Next]_vars

\* Dry runs, which validate the orders and the credentials and log the
\* orders: the manager before load_accounts, on the tables of ValidationRows.
InitValidate ==
    /\ rate_limit = [num |-> 2, den |-> 1]
    /\ dry_run = TRUE
    /\ BACKOFF_FACTOR = 1
    /\ RETRY_ATTEMPTS = 1
    /\ columns \in ColumnSets
    /\ orders \in ValidationTables
    /\ loaded = orders
    /\ precision \in PrecisionTables
    /\ environ = 1..Len(precision)
    /\ clients = <<>>
    /\ successful_orders = {}
    /\ pc = "load_accounts"
    /\ cred_row = 0
    /\ index = 0
    /\ attempt = 0
    /\ wait_time = 0
    /\ outcome = ""
    /\ error = NoError
    /\ raised = ""
    /\ runs = 0
    /\ accepted = NoRows(orders, 0)
    /\ ok_seen = NoRows(orders, 0)
    /\ attempts = NoRows(orders, 0)
    /\ backoffs = NoRows(orders, <<>>)
    /\ visited = <<>>
    /\ skipped = {}
    /\ limited = {}
    /\ acct_calls = <<>>
    /\ slept = 0
    /\ last_err = ""
    /\ exhausted = {}
    /\ in_flight = <<>>
    /\ validations = <<>>
    /\ started_with = {}

\* The steps of a dry run.
NextValidate ==
    \/ LoadAccounts
    \/ ValidateOrders
    \/ \E ok \in BOOLEAN : GetAccount(ok)
    \/ PlaceOrdersDone
    \/ DryRunOrder
    \/ RateLimitSleep
    \/ ExecuteAgain
    \/ CloseSessions

SpecValidate == InitValidate /\ [][NextValidate]_vars

\* ------------------------------------------------------------ type check

TypeOK ==
    /\ pc \in {"load_accounts", "validate_orders", "validate_api_credentials",
               "place_orders", "attempting", "in_flight", "backoff",
               "rate_limit_sleep", "executed", "finally", "closed"}
    /\ successful_orders \subseteq Rows
    /\ attempt \in 0..(RETRY_ATTEMPTS - 1)
    /\ runs \in 0..MaxRuns

\* ------------------------------------------------------------------ claims

Ended == pc \in {"executed", "closed"}

\* The backoff sleeps of an order that failed n times: factor^0 .. factor^(n-2).
ExpectedBackoffs(factor, n) == [k \in 1..(n - 1) |-> Pow(factor, k - 1)]

\* C1: a row is in successful_orders if and only if exactly one successful
\* place_order response was observed for it; no call is in flight for a row
\* that is already in successful_orders.
C1_AtMostOnceSuccess ==
    /\ \A i \in Rows : i \in successful_orders <=> ok_seen[i] = 1
    /\ pc \in {"attempting", "in_flight", "backoff"} => index \notin successful_orders

\* A resumed run: row 1 was confirmed in the first run and is skipped, row 2
\* is confirmed in the second run on its second attempt.
C1_Witness ==
    /\ runs = 2
    /\ pc = "executed"
    /\ outcome = "completed"
    /\ skipped = {1}
    /\ Len(orders) = 2
    /\ attempts[2] = 2
    /\ successful_orders = {1, 2}

\* C2: the exchange executes each order at most once per run.
C2_NoDoubleSubmission == \A i \in Rows : accepted[i] <= 1

\* C3: no row is attempted more than RETRY_ATTEMPTS times; a row whose every
\* attempt failed was attempted exactly RETRY_ATTEMPTS times, slept
\* BACKOFF_FACTOR^0 .. BACKOFF_FACTOR^(n-2) between the attempts and nothing
\* after the last one, and the last failure is what was raised.
C3_RetryBound ==
    /\ \A i \in Rows : attempts[i] <= RETRY_ATTEMPTS
    /\ \A i \in exhausted :
          /\ attempts[i] = RETRY_ATTEMPTS
          /\ backoffs[i] = ExpectedBackoffs(BACKOFF_FACTOR, RETRY_ATTEMPTS)
          /\ raised = last_err
          /\ raised \in Responses \ {"ok"}
          /\ Ended

\* Three failed attempts with sleeps of 1 and 2 seconds between them.
C3_Witness ==
    /\ exhausted = {1}
    /\ attempts[1] = 3
    /\ backoffs[1] = <<1, 2>>
    /\ raised = "insufficient"
    /\ pc = "executed"

\* C4: once the row K has exhausted its retries, no row after K is attempted
\* in the run, and the rows after K are not in successful_orders.
C4_AbortPropagation ==
    \A k \in exhausted : \A j \in Rows :
        j > k => /\ attempts[j] = 0
                 /\ j \notin Range(visited)
                 /\ j \notin successful_orders

\* Row 1 of two rows has exhausted its retries and the program has ended.
C4_Witness ==
    /\ exhausted = {1}
    /\ Len(orders) = 2
    /\ pc = "closed"

\* C5: a run in which validate_orders raised issues no get_account and no
\* place_order call.
C5_FailFastValidation ==
    error.kind # "none" =>
        /\ acct_calls = <<>>
        /\ \A i \in Rows : attempts[i] = 0
        /\ Ended

\* validate_orders raised at row 2 of a manager that has clients.
C5_Witness ==
    /\ error = [kind |-> "InvalidDirection", row |-> 2]
    /\ DOMAIN clients # {}
    /\ pc = "closed"

\* Every account of the precision table, checked successfully, in table order.
AllAccountsChecked == [k \in 1..Len(precision) |-> <<precision[k].Account, TRUE>>]

\* C6: a place_order call is issued only after get_account succeeded for every
\* account of the precision table; a failed get_account is the last one of the
\* run, and no order is submitted in that run.
C6_CredentialGate ==
    /\ (\E i \in Rows : attempts[i] > 0) => acct_calls = AllAccountsChecked
    /\ \A k \in 1..Len(acct_calls) :
          ~acct_calls[k][2] =>
              /\ k = Len(acct_calls)
              /\ outcome = "credential"
              /\ Ended
              /\ \A i \in Rows : attempts[i] = 0

\* The first run passed the gate and confirmed an order; in the second run
\* get_account failed for the first account and the second was not checked.
C6_Witness ==
    /\ runs = 2
    /\ outcome = "credential"
    /\ Len(precision) = 2
    /\ acct_calls = <<<<precision[1].Account, FALSE>>>>
    /\ \E i \in Rows : ok_seen[i] = 1

\* C7: when at least one account has credentials, valid orders and working
\* credentials bring the run to the submission of the orders, whichever
\* accounts of the precision table have no credentials.
C7_MissingCredentialsNotFatal ==
    (/\ Ended
     /\ DOMAIN clients # {}
     /\ error.kind = "none"
     /\ \A k \in 1..Len(acct_calls) : acct_calls[k][2])
    => outcome \in {"completed", "aborted"}

\* C8: a dry run issues no place_order call, visits the rows in row order and
\* leaves successful_orders empty.
C8_DryRun ==
    dry_run =>
        /\ \A i \in Rows : attempts[i] = 0 /\ accepted[i] = 0
        /\ pc \notin {"attempting", "in_flight", "backoff"}
        /\ successful_orders = {}
        /\ visited = [k \in 1..Len(visited) |-> k]
        /\ outcome = "completed" => Len(visited) = Len(orders)

\* A dry run over two rows has ended.
C8_Witness ==
    /\ dry_run
    /\ outcome = "completed"
    /\ visited = <<1, 2>>
    /\ pc = "closed"

\* C9: when a place_order call is about to be issued and is not the first of
\* the run, at least 1/rate_limit seconds were slept since the previous one.
C9_RateLimitSpacing ==
    (pc = "attempting" /\ \E i \in Rows : attempts[i] > 0)
    => slept >= RateLimitInterval(rate_limit)

\* 1/rate_limit seconds, in ticks of 1/rate_limit.num seconds.
InverseRate == rate_limit.den

\* The rows of this run that went through the loop body or were skipped.
Processed == Range(visited) \cup skipped

\* C10 as stated: the limiter has slept after every processed row, confirmed,
\* skipped or failed.
C10_SleepsAfterEveryOrder ==
    (Ended /\ outcome \in {"completed", "aborted"}) => Processed \subseteq limited

\* C10 amended: the limiter sleeps 1/rate_limit seconds after the rows that
\* were confirmed (or logged, in a dry run), and neither after a skipped row
\* nor after a row that exhausted its retries.
C10_SleepsAfterConfirmedOnly ==
    /\ (Ended /\ outcome \in {"completed", "aborted"}) =>
          limited = {i \in Range(visited) : dry_run \/ i \in successful_orders}
    /\ limited \cap skipped = {}
    /\ limited \cap exhausted = {}
    /\ (pc = "place_orders" /\ ~dry_run /\ (index - 1) \in limited) =>
          slept = InverseRate
    /\ dry_run => slept = Cardinality(limited) * InverseRate

\* A resumed run: row 1 is skipped without a sleep, row 2 is confirmed and
\* followed by the sleep.
C10_Witness ==
    /\ runs = 2
    /\ skipped = {1}
    /\ limited = {2}
    /\ outcome = "completed"
    /\ pc = "executed"

\* C11: however the run ends, the sessions can be and are closed by the
\* finally block: after it every client created by load_accounts has been
\* closed exactly once, before it none has been closed, and no request is
\* issued or pending once the clients are closed.
C11_ScopedCleanup ==
    /\ pc = "closed" => \A a \in DOMAIN clients : clients[a] = 1
    /\ pc # "closed" => \A a \in DOMAIN clients : clients[a] = 0
    /\ pc # "load_accounts" =>
          DOMAIN clients = {precision[i].Account : i \in environ}
    /\ pc \in {"executed", "finally"} => ENABLED CloseSessions
    /\ pc = "closed" => in_flight = <<>>

\* Two clients were created, a row exhausted its retries and the program ended.
C11_Witness ==
    /\ pc = "closed"
    /\ outcome = "aborted"
    /\ Cardinality(DOMAIN clients) = 2
    /\ \A a \in DOMAIN clients : clients[a] = 1

\* C12: every step either leaves successful_orders as it is, or is the return
\* of a successful place_order call, which adds the index of that row, not in
\* the set before, and nothing else; no step removes an index.
C12_TouchedOnlyOnSuccess ==
    [][\/ successful_orders' = successful_orders
       \/ /\ pc = "in_flight"
          /\ in_flight = <<index>>
          /\ ok_seen'[index] = ok_seen[index] + 1
          /\ index \notin successful_orders
          /\ successful_orders' = successful_orders \cup {index}]_vars

\* Both rows were confirmed, the second after a failed attempt and a backoff
\* sleep, and the sessions were closed.
C12_Witness ==
    /\ successful_orders = {1, 2}
    /\ attempts[2] = 2
    /\ backoffs[2] = <<1>>
    /\ pc = "closed"

\* The rows a run that started with the set `done` has to process.
Remaining(done) == Rows \ done

StrictlyIncreasing(q) == \A a, b \in DOMAIN q : a < b => q[a] < q[b]

C14_StrictlySequential ==
    /\ [](/\ Len(in_flight) <= 1
          /\ in_flight # <<>> => pc = "in_flight" /\ in_flight = <<index>>
          /\ \A j \in Rows : attempts[j] > 0 => j <= index)
    /\ [][\A i \in Rows :
             attempts'[i] > attempts[i] =>
                 /\ in_flight = <<>>
                 /\ \A j \in Rows : j > i => attempts[j] = 0 /\ attempts'[j] = 0]_vars

\* Row 1 was attempted twice and answered both times, and the first request
\* of row 2 is unanswered.
C14_Witness ==
    /\ pc = "in_flight"
    /\ in_flight = <<2>>
    /\ attempts = <<2, 1>>
    /\ ok_seen[1] = 1

\* The ways a run of execute ends that the claim C17 is about.
Failures == {"validation", "credential", "aborted"}

ValidationEnded ==
    pc = "executed" /\ outcome = "validation" /\ error.kind # "none"

CredentialEnded ==
    /\ pc = "executed" /\ outcome = "credential"
    /\ acct_calls # <<>> /\ ~acct_calls[Len(acct_calls)][2]

RetriesEnded ==
    /\ pc = "executed" /\ outcome = "aborted"
    /\ raised = "neterr" /\ exhausted # {}

Prefix(S) == S = 1..Cardinality(S)

\* The run is one the claim C20 is about: execute was called, not in dry-run
\* mode, with an empty successful_orders.
FreshRun == runs >= 1 /\ ~dry_run /\ started_with = {}

\* C20 as stated: in a non-dry run started with an empty successful_orders the
\* set is always a prefix of the rows, and when the run has ended it is the
\* whole order set or exactly the rows before a row K that exhausted its
\* retries.
C20_WholeOrBeforeExhausted ==
    FreshRun =>
        /\ Prefix(successful_orders)
        /\ Ended =>
              \/ successful_orders = Rows
              \/ \E K \in exhausted : successful_orders = 1..(K - 1)

\* C20, amended: in a non-dry run started with an empty successful_orders the
\* set is always a prefix of the rows; when the run has ended it is the whole
\* order set if place_orders passed the last row, exactly the rows before the
\* row K that exhausted its retries if place_orders gave up, and empty if the
\* run ended before place_orders started.
C20_PrefixInvariant ==
    FreshRun =>
        /\ Prefix(successful_orders)
        /\ Ended =>
              \/ outcome = "completed" /\ successful_orders = Rows
              \/ /\ outcome = "aborted"
                 /\ \E K \in exhausted :
                        exhausted = {K} /\ successful_orders = 1..(K - 1)
              \/ /\ outcome \in {"validation", "credential", "KeyError"}
                 /\ successful_orders = {}

\* Row 1 was confirmed and row 2 used up its retries; the sessions are closed.
C20_Witness ==
    /\ FreshRun
    /\ pc = "closed"
    /\ outcome = "aborted"
    /\ exhausted = {2}
    /\ successful_orders = {1}

\* The table the k-th call of validate_orders found: the loaded one, or the
\* one the call before it left.
InputOf(k) == IF k = 1 THEN loaded ELSE validations[k - 1].orders

\* One unit of the P-th decimal place.
Unit(P) == Scale \div Pow(10, P)

\* y is x rounded to P decimals: a multiple of the unit, at most half a unit
\* away from x.
IsRounded(x, y, P) ==
    /\ y % Unit(P) = 0
    /\ 2 * (y - x) <= Unit(P)
    /\ 2 * (x - y) <= Unit(P)

\* The row `out` is the row `inp` with Price and Quantity rounded by the rule
\* of the precision table that has the account of the row.
IsNormalized(inp, out) ==
    /\ out.Direction = inp.Direction
    /\ out.Account = inp.Account
    /\ \E r \in Range(precision) :
          /\ r.Account = inp.Account
          /\ IsRounded(inp.Price, out.Price, r.PricePrecision)
          /\ IsRounded(inp.Quantity, out.Quantity, r.QuantityPrecision)
          /\ (inp.Price = 200012345 /\ r.PricePrecision = 4) =>
                out.Price = 200010000
          /\ (inp.Quantity = 372245670 /\ r.QuantityPrecision = 1) =>
                out.Quantity = 370000000

\* C15: after a call of validate_orders that succeeds, every row has the
\* Price and the Quantity of its input rounded to the Price Precision and the
\* Quantity Precision of the rule with the account of the row, wherever the
\* row and the rule stand; (2.00012345, 3.7224567) with the precisions (4, 1)
\* becomes (2.0001, 3.7).
C15_PrecisionNormalization ==
    \A k \in DOMAIN validations :
        validations[k].error = NoError =>
            /\ Len(validations[k].orders) = Len(InputOf(k))
            /\ \A i \in DOMAIN InputOf(k) :
                  IsNormalized(InputOf(k)[i], validations[k].orders[i])
            /\ k = Len(validations) => orders = validations[k].orders

\* The first call succeeded on a table whose first row has account 2, the
\* second rule of the precision table, and whose second row is the example of
\* the claim with account 1.
C15_Witness ==
    /\ Len(validations) = 1
    /\ validations[1].error = NoError
    /\ Len(loaded) = 2
    /\ loaded[1].Account = 2 /\ loaded[1].Price = 212500000
    /\ orders[1].Price = 212000000 /\ orders[1].Quantity = 372200000
    /\ loaded[2] =
          [Direction |-> "BUY", Price |-> 200012345, Quantity |-> 372245670, Account |-> 1]
    /\ orders[2].Price = 200010000 /\ orders[2].Quantity = 370000000

\* C16: a call of validate_orders on the table that a successful call left,
\* with the same precision table, succeeds and leaves every Price and
\* Quantity as it was.
C16_ValidationIdempotent ==
    \A k \in DOMAIN validations :
        (k > 1 /\ validations[k - 1].error = NoError) =>
            /\ validations[k].error = NoError
            /\ validations[k].orders = validations[k - 1].orders

\* The part of C16 that the code keeps: the second call changes no Price and
\* no Quantity, whether it succeeds or not.
C16_ValuesAreFixedPoints ==
    \A k \in DOMAIN validations :
        (k > 1 /\ validations[k - 1].error = NoError) =>
            validations[k].orders = validations[k - 1].orders

\* The violations in the fixed order in which C18 lists them.
KindOrder ==
    <<"InvalidDirection", "NegativePrice", "NonPositiveQuantity", "UnknownAccount">>

\* All the violations of the row o.
ViolationsOf(o) ==
    {kind \in Range(KindOrder) :
        \/ kind = "InvalidDirection" /\ o.Direction \notin {"BUY", "SELL"}
        \/ kind = "NegativePrice" /\ o.Price < 0
        \/ kind = "NonPositiveQuantity" /\ o.Quantity <= 0
        \/ kind = "UnknownAccount" /\ \A r \in Range(precision) : r.Account # o.Account}

\* The rows of the table t that have a violation.
ViolatingRows(t) == {i \in DOMAIN t : ViolationsOf(t[i]) # {}}

\* C18: every call of validate_orders on a table with a missing required
\* column reports the missing column and has touched no row; otherwise it
\* succeeds if no row has a violation, and else reports the earliest violating
\* row, with the first of that row's violations in the order invalid
\* direction, negative price, non-positive quantity, unknown account.
C18_FirstViolationWins ==
    \A k \in DOMAIN validations :
        LET inp == InputOf(k)
            err == validations[k].error
        IN  IF ~(RequiredColumns \subseteq columns)
            THEN /\ err = [kind |-> "MissingColumns", row |-> 0]
                 /\ validations[k].orders = inp
            ELSE IF ViolatingRows(inp) = {}
            THEN err = NoError
            ELSE /\ err.row \in ViolatingRows(inp)
                 /\ \A i \in ViolatingRows(inp) : err.row <= i
                 /\ \E n \in DOMAIN KindOrder :
                       /\ err.kind = KindOrder[n]
                       /\ KindOrder[n] \in ViolationsOf(inp[err.row])
                       /\ \A m \in 1..(n - 1) :
                             KindOrder[m] \notin ViolationsOf(inp[err.row])

\* The first row has every violation but the invalid direction and the second
\* row has an invalid direction: the negative price of the first is reported.
C18_Witness ==
    /\ Len(validations) = 1
    /\ Len(loaded) = 2
    /\ ViolationsOf(loaded[1]) =
          {"NegativePrice", "NonPositiveQuantity", "UnknownAccount"}
    /\ "InvalidDirection" \in ViolationsOf(loaded[2])
    /\ validations[1].error = [kind |-> "NegativePrice", row |-> 1]

\* C19: when a call of validate_orders fails at the row k, every row before k
\* has its Price and Quantity rewritten to the precision of its account, and
\* the row k and every later row are as the call found them, which for the
\* first call is as they were loaded.
C19_PartialNormalization ==
    \A c \in DOMAIN validations :
        LET inp == InputOf(c)
            out == validations[c].orders
            k == validations[c].error.row
        IN  k >= 1 =>
                /\ Len(out) = Len(inp)
                /\ \A i \in 1..(k - 1) : IsNormalized(inp[i], out[i])
                /\ \A i \in k..Len(inp) : out[i] = inp[i]
                /\ c = 1 => \A i \in k..Len(inp) : out[i] = loaded[i]
                /\ c = Len(validations) => orders = out

\* The call failed at row 2, after it had rewritten both values of row 1.
C19_Witness ==
    /\ Len(validations) = 1
    /\ validations[1].error.row = 2
    /\ orders[1].Price # loaded[1].Price
    /\ orders[1].Quantity # loaded[1].Quantity
    /\ orders[2] = loaded[2]

====
